---- MODULE Spec2Model ----
(***************************************************************************)
(* The C boundary of the Draco glTF transcoder (draco_transcoder_c_api):   *)
(* draco_transcode_gltf, draco_transcode_gltf_from_buffer,                 *)
(* draco_decompress_gltf_to_buffer and draco_free_buffer, as a state       *)
(* machine over the caller-visible memory: the heap blocks handed out, the  *)
(* caller's size_t out-variable, the output file, and the record of the     *)
(* most recent call with the stages it ran.                                 *)
(***************************************************************************)
EXTENDS Integers, Sequences, FiniteSets, TLC

\* ------------------------------------------------------------------ bounds
\* Number of heap addresses malloc can hand out.
MaxBlocks == 2

\* ------------------------------------------------------------------ memory
\* The null pointer; every other pointer value is a positive integer.
NULL == 0

Addrs == 1..MaxBlocks

\* Byte values of the abstract glTF container (delegate codec).
GltfMagic == 71
PlainTag == 0
GeometryByte == 5
UnsupportedByte == 99

\* The byte regions the caller can point input_data at (pointer p > 0 names
\* Buffers[p]); the same regions are the contents of the input files.
\* Buffers[1] is a well-formed asset, Buffers[2] one the encoder rejects.
Buffers ==
  << <<GltfMagic, PlainTag, GeometryByte>>,
     <<GltfMagic, PlainTag, UnsupportedByte>> >>

DataPtrs == {NULL} \cup (1..Len(Buffers))

\* Sizes a caller passes with a pointer: with a null pointer, 0 or a stray
\* non-zero length; with the first region any prefix (0 included, the
\* one-byte prefix being a truncated asset); with the second 0 or all of it.
SizesFor(p) ==
  IF p = NULL THEN {0, 1}
  ELSE IF p = 1 THEN 0..Len(Buffers[p])
  ELSE {0, Len(Buffers[p])}

\* ------------------------------------------------------------ DracoOptions
\* The C struct DracoOptions, as the records a caller can point options at
\* (pointer p > 0 names OptionsTable[p]).
DracoOptions(qp, qt, qn, qc, qtg, qw, qg, level) ==
  [quantization_position |-> qp, quantization_tex_coord |-> qt,
   quantization_normal |-> qn, quantization_color |-> qc,
   quantization_tangent |-> qtg, quantization_weight |-> qw,
   quantization_generic |-> qg, compression_level |-> level]

\* The documented defaults of the struct.
DefaultOptions == DracoOptions(11, 10, 8, 8, 8, 8, 8, 7)

OptionsTable ==
  << DefaultOptions,
     DracoOptions(14, 12, 10, 9, 6, 5, 4, 7),
     [DefaultOptions EXCEPT !.compression_level = -1],
     [DefaultOptions EXCEPT !.quantization_normal = -1] >>

OptionPtrs == {NULL} \cup (1..Len(OptionsTable))

\* ------------------------------------------------- delegate (Draco library)
MaxCompressionLevel == 10
MaxQuantizationBits == 30
DracoTagBase == 100

\* A default-constructed draco::DracoTranscodingOptions.
DracoTranscodingOptions ==
  [geometry |->
    [compression_level |-> 7,
     quantization_position |->
       [mode |-> "LOCAL_QUANTIZATION_BITS", quantization_bits |-> 11],
     quantization_bits_tex_coord |-> 10,
     quantization_bits_normal |-> 8,
     quantization_bits_color |-> 8,
     quantization_bits_tangent |-> 8,
     quantization_bits_weight |-> 8,
     quantization_bits_generic |-> 8]]

\* SpatialQuantizationOptions::SetQuantizationBits: selects the bit-count
\* mode and stores the bit count.
SetQuantizationBits(quantization_position, bits) ==
  [quantization_position EXCEPT
     !.mode = "LOCAL_QUANTIZATION_BITS", !.quantization_bits = bits]

\* DracoCompressionOptions::Check(): TRUE iff the status is ok.
Check(geometry) ==
  /\ geometry.compression_level \in 0..MaxCompressionLevel
  /\ (geometry.quantization_position.mode = "LOCAL_QUANTIZATION_BITS"
        => geometry.quantization_position.quantization_bits
             \in 0..MaxQuantizationBits)
  /\ geometry.quantization_bits_tex_coord \in 0..MaxQuantizationBits
  /\ geometry.quantization_bits_normal \in 0..MaxQuantizationBits
  /\ geometry.quantization_bits_color \in 0..MaxQuantizationBits
  /\ geometry.quantization_bits_tangent \in 0..MaxQuantizationBits
  /\ geometry.quantization_bits_weight \in 0..MaxQuantizationBits
  /\ geometry.quantization_bits_generic \in 0..MaxQuantizationBits

\* GltfDecoder::DecodeFromBufferToScene on the bytes of the input buffer:
\* a status and, when ok, the scene (geometry plus scene-level compression
\* settings, <<>> when compression is not enabled).
DecodeFromBufferToScene(bytes) ==
  IF Len(bytes) >= 2 /\ bytes[1] = GltfMagic
  THEN [ok |-> TRUE,
        scene |-> [geometry |-> SubSeq(bytes, 3, Len(bytes)),
                   compression |-> <<>>]]
  ELSE [ok |-> FALSE, scene |-> [geometry |-> <<>>, compression |-> <<>>]]

\* SceneUtils::SetDracoCompressionOptions: stores the geometry options as the
\* scene's compression settings; the geometry itself is untouched.
SetDracoCompressionOptions(geometry, scene) ==
  [scene EXCEPT !.compression = <<geometry>>]

\* GltfEncoder::EncodeToBuffer: a status and, when ok, the encoded bytes.
EncodeToBuffer(scene) ==
  IF \E i \in 1..Len(scene.geometry) : scene.geometry[i] = UnsupportedByte
  THEN [ok |-> FALSE, bytes |-> <<>>]
  ELSE [ok |-> TRUE,
        bytes |-> << GltfMagic,
                     IF scene.compression = <<>>
                     THEN PlainTag
                     ELSE DracoTagBase + scene.compression[1].compression_level >>
                  \o scene.geometry]

\* ------------------------------------------------------------------- state
VARIABLES
  heap,     \* live malloc blocks: address -> bytes of the block
  owned,    \* addresses the caller received and has not freed yet
  outSize,  \* the caller's size_t that a non-null output_size points to
  outFile,  \* bytes at the output path, <<>> while nothing was written
  last      \* the most recent call: arguments, return value, stages run

vars == <<heap, owned, outSize, outFile, last>>

\* The one size_t variable of the caller; output_size is NULL or its address.
SizePtrs == {NULL, 1}
\* Names of the input files: file p holds Buffers[p].
PathPtrs == {NULL} \cup (1..Len(Buffers))
\* The one output path.
OutPathPtrs == {NULL, 1}

\* A stage a call executed, with its status (TRUE for a stage that cannot
\* fail).
Ev(stage, ok) == [stage |-> stage, ok |-> ok]

\* What one call did, before it is applied to the caller's memory.
\*   ret      the return value (a status, or a pointer for the buffer paths)
\*   events   the stages executed, in order
\*   config   <<transcode_options>> once the options were translated
\*   applied  the geometry options applied to the scene, in order
\*   stores   the values stored through output_size, in order
\*   alloc    <<[addr, bytes]>> for a block malloc'ed and still allocated
\*   file     <<bytes>> written to the output path
Outcome ==
  [ret |-> 0, events |-> <<>>, config |-> <<>>, applied |-> <<>>,
   stores |-> <<>>, alloc |-> <<>>, file |-> <<>>]

\* The bytes a call reads: input_size bytes starting at input_data.
InputBytes(input_data, input_size) ==
  SubSeq(Buffers[input_data], 1, input_size)

\* ------------------------------------------------------ options translation
\* draco_transcode_gltf: DracoOptions -> transcode_options.
transcode_options_file(options) ==
  LET t == DracoTranscodingOptions.geometry IN
  [geometry |->
    [t EXCEPT
      !.compression_level = options.compression_level,
      !.quantization_position =
          SetQuantizationBits(t.quantization_position,
                              options.quantization_position),
      !.quantization_bits_tex_coord = options.quantization_tex_coord,
      !.quantization_bits_normal = options.quantization_normal,
      !.quantization_bits_color = options.quantization_color,
      !.quantization_bits_tangent = options.quantization_tangent,
      !.quantization_bits_weight = options.quantization_weight,
      !.quantization_bits_generic = options.quantization_generic]]

\* transcode_options_buffer with the tangent and weight fields crossed.
transcode_options_buffer_swapped(options) ==
  LET t == DracoTranscodingOptions.geometry IN
  [geometry |->
    [t EXCEPT
      !.compression_level = options.compression_level,
      !.quantization_position =
          SetQuantizationBits(t.quantization_position,
                              options.quantization_position),
      !.quantization_bits_tex_coord = options.quantization_tex_coord,
      !.quantization_bits_normal = options.quantization_normal,
      !.quantization_bits_color = options.quantization_color,
      !.quantization_bits_tangent = options.quantization_weight,
      !.quantization_bits_weight = options.quantization_tangent,
      !.quantization_bits_generic = options.quantization_generic]]

\* draco_transcode_gltf_from_buffer: DracoOptions -> transcode_options.
transcode_options_buffer(options) ==
  LET t == DracoTranscodingOptions.geometry IN
  [geometry |->
    [t EXCEPT
      !.compression_level = options.compression_level,
      !.quantization_position =
          SetQuantizationBits(t.quantization_position,
                              options.quantization_position),
      !.quantization_bits_tex_coord = options.quantization_tex_coord,
      !.quantization_bits_normal = options.quantization_normal,
      !.quantization_bits_color = options.quantization_color,
      !.quantization_bits_tangent = options.quantization_tangent,
      !.quantization_bits_weight = options.quantization_weight,
      !.quantization_bits_generic = options.quantization_generic]]

\* DracoTranscoder::Transcode(file_options) of a transcoder created from
\* transcode_options: reads the input file, decodes it, applies the geometry
\* options, encodes and writes the output file. ioOk is the file system's
\* answer; nothing is written unless every step succeeded.
Transcode(transcode_options, input_filename, ioOk) ==
  LET d == DecodeFromBufferToScene(Buffers[input_filename])
      e == EncodeToBuffer(
             SetDracoCompressionOptions(transcode_options.geometry, d.scene))
  IN IF ioOk /\ d.ok /\ e.ok
     THEN [ok |-> TRUE, file |-> <<e.bytes>>]
     ELSE [ok |-> FALSE, file |-> <<>>]

\* ------------------------------------------------------------ entry points
\* draco_transcode_gltf with the two delegate failures reported by one code.
draco_transcode_gltf_same_code(input_filename, output_filename, options, env) ==
  IF input_filename = NULL \/ output_filename = NULL \/ options = NULL
  THEN [Outcome EXCEPT !.ret = -1]
  ELSE
    LET transcode_options == transcode_options_file(OptionsTable[options])
        check_status == Check(transcode_options.geometry)
        s1 == [Outcome EXCEPT
                 !.events = <<Ev("FileOptions", TRUE), Ev("translate", TRUE),
                              Ev("Check", check_status)>>,
                 !.config = <<transcode_options>>]
    IN IF ~check_status
       THEN [s1 EXCEPT !.ret = -2]
       ELSE
         LET dt_result == (env # "create_fails")
             s2 == [s1 EXCEPT !.events = @ \o <<Ev("Create", dt_result)>>]
         IN IF ~dt_result
            THEN [s2 EXCEPT !.ret = -3]
            ELSE
              LET transcode_status ==
                    Transcode(transcode_options, input_filename,
                              env # "io_fails")
                  s3 == [s2 EXCEPT
                           !.events = @ \o <<Ev("Transcode",
                                                transcode_status.ok)>>,
                           !.file = transcode_status.file]
              IN IF ~transcode_status.ok
                 THEN [s3 EXCEPT !.ret = -3]
                 ELSE [s3 EXCEPT !.ret = 0]

\* draco_transcode_gltf without the return after a failed Check().
draco_transcode_gltf_no_return(input_filename, output_filename, options, env) ==
  IF input_filename = NULL \/ output_filename = NULL \/ options = NULL
  THEN [Outcome EXCEPT !.ret = -1]
  ELSE
    LET transcode_options == transcode_options_file(OptionsTable[options])
        check_status == Check(transcode_options.geometry)
        s1 == [Outcome EXCEPT
                 !.events = <<Ev("FileOptions", TRUE), Ev("translate", TRUE),
                              Ev("Check", check_status)>>,
                 !.config = <<transcode_options>>]
    IN IF FALSE
       THEN [s1 EXCEPT !.ret = -2]
       ELSE
         LET dt_result == (env # "create_fails")
             s2 == [s1 EXCEPT !.events = @ \o <<Ev("Create", dt_result)>>]
         IN IF ~dt_result
            THEN [s2 EXCEPT !.ret = -3]
            ELSE
              LET transcode_status ==
                    Transcode(transcode_options, input_filename,
                              env # "io_fails")
                  s3 == [s2 EXCEPT
                           !.events = @ \o <<Ev("Transcode",
                                                transcode_status.ok)>>,
                           !.file = transcode_status.file]
              IN IF ~transcode_status.ok
                 THEN [s3 EXCEPT !.ret = -4]
                 ELSE [s3 EXCEPT !.ret = 0]

\* int draco_transcode_gltf(input_filename, output_filename, options);
\* env is the environment of the delegate: "create_fails" when
\* DracoTranscoder::Create answers an error, "io_fails" when the file system
\* does, "ok" otherwise.
draco_transcode_gltf(input_filename, output_filename, options, env) ==
  IF input_filename = NULL \/ output_filename = NULL \/ options = NULL
  THEN [Outcome EXCEPT !.ret = -1]
  ELSE
    LET transcode_options == transcode_options_file(OptionsTable[options])
        check_status == Check(transcode_options.geometry)
        s1 == [Outcome EXCEPT
                 !.events = <<Ev("FileOptions", TRUE), Ev("translate", TRUE),
                              Ev("Check", check_status)>>,
                 !.config = <<transcode_options>>]
    IN IF ~check_status
       THEN [s1 EXCEPT !.ret = -2]
       ELSE
         LET dt_result == (env # "create_fails")
             s2 == [s1 EXCEPT !.events = @ \o <<Ev("Create", dt_result)>>]
         IN IF ~dt_result
            THEN [s2 EXCEPT !.ret = -3]
            ELSE
              LET transcode_status ==
                    Transcode(transcode_options, input_filename,
                              env # "io_fails")
                  s3 == [s2 EXCEPT
                           !.events = @ \o <<Ev("Transcode",
                                                transcode_status.ok)>>,
                           !.file = transcode_status.file]
              IN IF ~transcode_status.ok
                 THEN [s3 EXCEPT !.ret = -4]
                 ELSE [s3 EXCEPT !.ret = 0]

\* draco_transcode_gltf_from_buffer storing *output_size = 0 before the
\* argument check.
draco_transcode_gltf_from_buffer_store_first(input_data, input_size, options, output_size, result) ==
  IF input_data = NULL \/ input_size = 0 \/ options = NULL \/ output_size = NULL
  THEN [Outcome EXCEPT !.ret = NULL,
                       !.events = <<Ev("store_zero", TRUE)>>,
                       !.stores = <<0>>]
  ELSE
    LET transcode_options == transcode_options_buffer(OptionsTable[options])
        check_status == Check(transcode_options.geometry)
        s1 == [Outcome EXCEPT
                 !.ret = NULL,
                 !.events = <<Ev("store_zero", TRUE), Ev("translate", TRUE),
                              Ev("Check", check_status)>>,
                 !.stores = <<0>>,
                 !.config = <<transcode_options>>]
    IN IF ~check_status
       THEN s1
       ELSE
         LET scene_result ==
               DecodeFromBufferToScene(InputBytes(input_data, input_size))
             s2 == [s1 EXCEPT !.events = @ \o <<Ev("Decode", scene_result.ok)>>]
         IN IF ~scene_result.ok
            THEN s2
            ELSE
              LET scene == SetDracoCompressionOptions(
                             transcode_options.geometry, scene_result.scene)
                  encode_status == EncodeToBuffer(scene)
                  s3 == [s2 EXCEPT
                           !.events = @ \o
                              <<Ev("SetDracoCompressionOptions", TRUE),
                                Ev("Encode", encode_status.ok)>>,
                           !.applied = <<transcode_options.geometry>>]
              IN IF ~encode_status.ok
                 THEN s3
                 ELSE
                   LET s4 == [s3 EXCEPT
                                !.events = @ \o <<Ev("malloc", result # NULL)>>]
                   IN IF result = NULL
                      THEN s4
                      ELSE [s4 EXCEPT
                              !.events = @ \o <<Ev("memcpy", TRUE),
                                                Ev("store_size", TRUE)>>,
                              !.alloc = <<[addr |-> result,
                                           bytes |-> encode_status.bytes]>>,
                              !.stores = @ \o <<Len(encode_status.bytes)>>,
                              !.ret = result]

\* draco_transcode_gltf_from_buffer adding the size onto what the caller's
\* variable held instead of resetting it.
draco_transcode_gltf_from_buffer_accumulate(input_data, input_size, options, output_size, result) ==
  IF input_data = NULL \/ input_size = 0 \/ options = NULL \/ output_size = NULL
  THEN [Outcome EXCEPT !.ret = NULL]
  ELSE
    LET transcode_options == transcode_options_buffer(OptionsTable[options])
        check_status == Check(transcode_options.geometry)
        s1 == [Outcome EXCEPT
                 !.ret = NULL,
                 !.events = <<Ev("store_zero", TRUE), Ev("translate", TRUE),
                              Ev("Check", check_status)>>,
                 !.stores = <<>>,
                 !.config = <<transcode_options>>]
    IN IF ~check_status
       THEN s1
       ELSE
         LET scene_result ==
               DecodeFromBufferToScene(InputBytes(input_data, input_size))
             s2 == [s1 EXCEPT !.events = @ \o <<Ev("Decode", scene_result.ok)>>]
         IN IF ~scene_result.ok
            THEN s2
            ELSE
              LET scene == SetDracoCompressionOptions(
                             transcode_options.geometry, scene_result.scene)
                  encode_status == EncodeToBuffer(scene)
                  s3 == [s2 EXCEPT
                           !.events = @ \o
                              <<Ev("SetDracoCompressionOptions", TRUE),
                                Ev("Encode", encode_status.ok)>>,
                           !.applied = <<transcode_options.geometry>>]
              IN IF ~encode_status.ok
                 THEN s3
                 ELSE
                   LET s4 == [s3 EXCEPT
                                !.events = @ \o <<Ev("malloc", result # NULL)>>]
                   IN IF result = NULL
                      THEN s4
                      ELSE [s4 EXCEPT
                              !.events = @ \o <<Ev("memcpy", TRUE),
                                                Ev("store_size", TRUE)>>,
                              !.alloc = <<[addr |-> result,
                                           bytes |-> encode_status.bytes]>>,
                              !.stores = <<outSize + Len(encode_status.bytes)>>,
                              !.ret = result]

\* draco_transcode_gltf_from_buffer storing the size before looking at
\* malloc's answer.
draco_transcode_gltf_from_buffer_store_on_oom(input_data, input_size, options, output_size, result) ==
  IF input_data = NULL \/ input_size = 0 \/ options = NULL \/ output_size = NULL
  THEN [Outcome EXCEPT !.ret = NULL]
  ELSE
    LET transcode_options == transcode_options_buffer(OptionsTable[options])
        check_status == Check(transcode_options.geometry)
        s1 == [Outcome EXCEPT
                 !.ret = NULL,
                 !.events = <<Ev("store_zero", TRUE), Ev("translate", TRUE),
                              Ev("Check", check_status)>>,
                 !.stores = <<0>>,
                 !.config = <<transcode_options>>]
    IN IF ~check_status
       THEN s1
       ELSE
         LET scene_result ==
               DecodeFromBufferToScene(InputBytes(input_data, input_size))
             s2 == [s1 EXCEPT !.events = @ \o <<Ev("Decode", scene_result.ok)>>]
         IN IF ~scene_result.ok
            THEN s2
            ELSE
              LET scene == SetDracoCompressionOptions(
                             transcode_options.geometry, scene_result.scene)
                  encode_status == EncodeToBuffer(scene)
                  s3 == [s2 EXCEPT
                           !.events = @ \o
                              <<Ev("SetDracoCompressionOptions", TRUE),
                                Ev("Encode", encode_status.ok)>>,
                           !.applied = <<transcode_options.geometry>>]
              IN IF ~encode_status.ok
                 THEN s3
                 ELSE
                   LET s4 == [s3 EXCEPT
                                !.events = @ \o <<Ev("malloc", result # NULL)>>]
                   IN IF result = NULL
                      THEN [s4 EXCEPT
                              !.events = @ \o <<Ev("store_size", TRUE)>>,
                              !.stores = @ \o <<Len(encode_status.bytes)>>]
                      ELSE [s4 EXCEPT
                              !.events = @ \o <<Ev("memcpy", TRUE),
                                                Ev("store_size", TRUE)>>,
                              !.alloc = <<[addr |-> result,
                                           bytes |-> encode_status.bytes]>>,
                              !.stores = @ \o <<Len(encode_status.bytes)>>,
                              !.ret = result]

\* void *draco_transcode_gltf_from_buffer(input_data, input_size, options,
\*                                        output_size);
\* result is what malloc answers if the call gets that far.
draco_transcode_gltf_from_buffer(input_data, input_size, options, output_size, result) ==
  IF input_data = NULL \/ input_size = 0 \/ options = NULL \/ output_size = NULL
  THEN [Outcome EXCEPT !.ret = NULL]
  ELSE
    LET transcode_options == transcode_options_buffer(OptionsTable[options])
        check_status == Check(transcode_options.geometry)
        s1 == [Outcome EXCEPT
                 !.ret = NULL,
                 !.events = <<Ev("store_zero", TRUE), Ev("translate", TRUE),
                              Ev("Check", check_status)>>,
                 !.stores = <<0>>,
                 !.config = <<transcode_options>>]
    IN IF ~check_status
       THEN s1
       ELSE
         LET scene_result ==
               DecodeFromBufferToScene(InputBytes(input_data, input_size))
             s2 == [s1 EXCEPT !.events = @ \o <<Ev("Decode", scene_result.ok)>>]
         IN IF ~scene_result.ok
            THEN s2
            ELSE
              LET scene == SetDracoCompressionOptions(
                             transcode_options.geometry, scene_result.scene)
                  encode_status == EncodeToBuffer(scene)
                  s3 == [s2 EXCEPT
                           !.events = @ \o
                              <<Ev("SetDracoCompressionOptions", TRUE),
                                Ev("Encode", encode_status.ok)>>,
                           !.applied = <<transcode_options.geometry>>]
              IN IF ~encode_status.ok
                 THEN s3
                 ELSE
                   LET s4 == [s3 EXCEPT
                                !.events = @ \o <<Ev("malloc", result # NULL)>>]
                   IN IF result = NULL
                      THEN s4
                      ELSE [s4 EXCEPT
                              !.events = @ \o <<Ev("memcpy", TRUE),
                                                Ev("store_size", TRUE)>>,
                              !.alloc = <<[addr |-> result,
                                           bytes |-> encode_status.bytes]>>,
                              !.stores = @ \o <<Len(encode_status.bytes)>>,
                              !.ret = result]

\* draco_decompress_gltf_to_buffer applying default compression options to
\* the decoded scene.
draco_decompress_gltf_to_buffer_with_options(input_data, input_size, output_size, result) ==
  IF input_data = NULL \/ input_size = 0 \/ output_size = NULL
  THEN [Outcome EXCEPT !.ret = NULL]
  ELSE
    LET scene_result ==
          DecodeFromBufferToScene(InputBytes(input_data, input_size))
        s1 == [Outcome EXCEPT
                 !.ret = NULL,
                 !.events = <<Ev("store_zero", TRUE),
                              Ev("Decode", scene_result.ok)>>,
                 !.stores = <<0>>]
    IN IF ~scene_result.ok
       THEN s1
       ELSE
         LET encode_status ==
               EncodeToBuffer(SetDracoCompressionOptions(
                 DracoTranscodingOptions.geometry, scene_result.scene))
             s2 == [s1 EXCEPT
                      !.events = @ \o <<Ev("SetDracoCompressionOptions", TRUE),
                                        Ev("Encode", encode_status.ok)>>,
                      !.applied = <<DracoTranscodingOptions.geometry>>]
         IN IF ~encode_status.ok
            THEN s2
            ELSE
              LET s3 == [s2 EXCEPT
                           !.events = @ \o <<Ev("malloc", result # NULL)>>]
              IN IF result = NULL
                 THEN s3
                 ELSE [s3 EXCEPT
                         !.events = @ \o <<Ev("memcpy", TRUE),
                                           Ev("store_size", TRUE)>>,
                         !.alloc = <<[addr |-> result,
                                      bytes |-> encode_status.bytes]>>,
                         !.stores = @ \o <<Len(encode_status.bytes)>>,
                         !.ret = result]

\* void *draco_decompress_gltf_to_buffer(input_data, input_size, output_size);
draco_decompress_gltf_to_buffer(input_data, input_size, output_size, result) ==
  IF input_data = NULL \/ input_size = 0 \/ output_size = NULL
  THEN [Outcome EXCEPT !.ret = NULL]
  ELSE
    LET scene_result ==
          DecodeFromBufferToScene(InputBytes(input_data, input_size))
        s1 == [Outcome EXCEPT
                 !.ret = NULL,
                 !.events = <<Ev("store_zero", TRUE),
                              Ev("Decode", scene_result.ok)>>,
                 !.stores = <<0>>]
    IN IF ~scene_result.ok
       THEN s1
       ELSE
         LET encode_status == EncodeToBuffer(scene_result.scene)
             s2 == [s1 EXCEPT !.events = @ \o <<Ev("Encode", encode_status.ok)>>]
         IN IF ~encode_status.ok
            THEN s2
            ELSE
              LET s3 == [s2 EXCEPT
                           !.events = @ \o <<Ev("malloc", result # NULL)>>]
              IN IF result = NULL
                 THEN s3
                 ELSE [s3 EXCEPT
                         !.events = @ \o <<Ev("memcpy", TRUE),
                                           Ev("store_size", TRUE)>>,
                         !.alloc = <<[addr |-> result,
                                      bytes |-> encode_status.bytes]>>,
                         !.stores = @ \o <<Len(encode_status.bytes)>>,
                         !.ret = result]

\* draco_free_buffer that never reaches free().
draco_free_buffer_no_free(buffer) ==
  {}

\* void draco_free_buffer(buffer): the set of addresses passed to free().
draco_free_buffer(buffer) ==
  IF buffer # NULL THEN {buffer} ELSE {}

\* ----------------------------------------------------------------- actions
\* The arguments of a call, unused ones NULL.
CallOf(fn) ==
  [fn |-> fn, input_filename |-> NULL, output_filename |-> NULL,
   input_data |-> NULL, input_size |-> 0, options |-> NULL,
   output_size |-> NULL, buffer |-> NULL, ret |-> 0,
   events |-> <<>>, config |-> <<>>, applied |-> <<>>]

Init ==
  /\ heap = [a \in {} |-> <<>>]
  /\ owned = {}
  /\ outSize = 0
  /\ outFile = <<>>
  /\ last = CallOf("none")

\* What malloc can answer: a free address, or NULL.
MallocAnswers == {NULL} \cup (Addrs \ DOMAIN heap)

\* The environment of the file path's delegate calls.
DelegateEnv == {"ok", "create_fails", "io_fails"}

\* The caller-visible effect of a call with outcome r.
Effect(call, r) ==
  /\ heap' = IF r.alloc = <<>>
             THEN heap
             ELSE [a \in DOMAIN heap \cup {r.alloc[1].addr} |->
                     IF a = r.alloc[1].addr THEN r.alloc[1].bytes ELSE heap[a]]
  /\ outSize' = IF call.output_size # NULL /\ r.stores # <<>>
                THEN r.stores[Len(r.stores)]
                ELSE outSize
  /\ outFile' = IF r.file # <<>> THEN r.file[1] ELSE outFile
  /\ last' = [call EXCEPT !.ret = r.ret, !.events = r.events,
                          !.config = r.config, !.applied = r.applied]

TranscodeGltf ==
  \E input_filename \in PathPtrs, output_filename \in OutPathPtrs,
     options \in OptionPtrs, env \in DelegateEnv :
    LET r == draco_transcode_gltf(input_filename, output_filename, options,
                                  env)
    IN /\ Effect([CallOf("draco_transcode_gltf") EXCEPT
                    !.input_filename = input_filename,
                    !.output_filename = output_filename,
                    !.options = options], r)
       /\ UNCHANGED owned

TranscodeGltfFromBuffer ==
  \E input_data \in DataPtrs, options \in OptionPtrs,
     output_size \in SizePtrs, result \in MallocAnswers :
    \E input_size \in SizesFor(input_data) :
      LET r == draco_transcode_gltf_from_buffer(input_data, input_size,
                                                options, output_size, result)
      IN /\ Effect([CallOf("draco_transcode_gltf_from_buffer") EXCEPT
                      !.input_data = input_data, !.input_size = input_size,
                      !.options = options, !.output_size = output_size], r)
         /\ owned' = IF r.ret # NULL THEN owned \cup {r.ret} ELSE owned

DecompressGltfToBuffer ==
  \E input_data \in DataPtrs, output_size \in SizePtrs,
     result \in MallocAnswers :
    \E input_size \in SizesFor(input_data) :
      LET r == draco_decompress_gltf_to_buffer(input_data, input_size,
                                               output_size, result)
      IN /\ Effect([CallOf("draco_decompress_gltf_to_buffer") EXCEPT
                      !.input_data = input_data, !.input_size = input_size,
                      !.output_size = output_size], r)
         /\ owned' = IF r.ret # NULL THEN owned \cup {r.ret} ELSE owned

\* The caller frees a block it owns (each at most once), or passes NULL.
FreeBuffer ==
  \E buffer \in {NULL} \cup owned :
    /\ heap' = [a \in DOMAIN heap \ draco_free_buffer(buffer) |-> heap[a]]
    /\ owned' = owned \ {buffer}
    /\ last' = [CallOf("draco_free_buffer") EXCEPT !.buffer = buffer]
    /\ UNCHANGED <<outSize, outFile>>

Next ==
  \/ TranscodeGltf
  \/ TranscodeGltfFromBuffer
  \/ DecompressGltfToBuffer
  \/ FreeBuffer

Spec == Init /\ [][Next]_vars

\* ------------------------------------------------------------------ claims
IsFile == last.fn = "draco_transcode_gltf"
IsTranscode == last.fn = "draco_transcode_gltf_from_buffer"
IsDecompress == last.fn = "draco_decompress_gltf_to_buffer"
IsFree == last.fn = "draco_free_buffer"

\* The argument check of each entry point rejects the last call.
FileArgsBad ==
  last.input_filename = NULL \/ last.output_filename = NULL
    \/ last.options = NULL
TranscodeArgsBad ==
  last.input_data = NULL \/ last.input_size = 0 \/ last.options = NULL
    \/ last.output_size = NULL
DecompressArgsBad ==
  last.input_data = NULL \/ last.input_size = 0 \/ last.output_size = NULL

StageNames(e) == [i \in 1..Len(e) |-> e[i].stage]
IsPrefix(a, b) == Len(a) <= Len(b) /\ \A i \in 1..Len(a) : a[i] = b[i]
Ran(e, stage) == \E i \in 1..Len(e) : e[i].stage = stage
Failed(e, stage) == \E i \in 1..Len(e) : e[i] = Ev(stage, FALSE)
Succeeded(e, stage) == \E i \in 1..Len(e) : e[i] = Ev(stage, TRUE)
\* No stage runs after a failed one.
ShortCircuits(e) == \A i \in 1..(Len(e) - 1) : e[i].ok

\* The geometry configuration a DracoOptions record stands for, slot by slot.
ExpectedGeometry(o) ==
  [compression_level |-> o.compression_level,
   quantization_position |->
     [mode |-> "LOCAL_QUANTIZATION_BITS",
      quantization_bits |-> o.quantization_position],
   quantization_bits_tex_coord |-> o.quantization_tex_coord,
   quantization_bits_normal |-> o.quantization_normal,
   quantization_bits_color |-> o.quantization_color,
   quantization_bits_tangent |-> o.quantization_tangent,
   quantization_bits_weight |-> o.quantization_weight,
   quantization_bits_generic |-> o.quantization_generic]

\* The options record of the last call passes the delegate's Check().
OptionsValid == Check(ExpectedGeometry(OptionsTable[last.options]))

FileStages == <<"FileOptions", "translate", "Check", "Create", "Transcode">>
TranscodeStages ==
  <<"store_zero", "translate", "Check", "Decode",
    "SetDracoCompressionOptions", "Encode", "malloc", "memcpy", "store_size">>
DecompressStages ==
  <<"store_zero", "Decode", "Encode", "malloc", "memcpy", "store_size">>
\* The stages that call into the Draco library or the allocator.
DelegateStages ==
  {"Create", "Transcode", "Decode", "SetDracoCompressionOptions", "Encode",
   "malloc", "memcpy"}

\* C1: draco_transcode_gltf returns one of 0, -1, -2, -3, -4, and the value
\* names the first stage that failed, in the order null argument (-1),
\* Check() (-2), DracoTranscoder::Create (-3), Transcode (-4); it returns 0
\* if and only if all four stages succeeded.
C1_StatusNamesFirstFailedStage ==
  IsFile =>
    LET e == last.events IN
    /\ last.ret \in {0, -1, -2, -3, -4}
    /\ IsPrefix(StageNames(e), FileStages)
    /\ ShortCircuits(e)
    /\ (last.ret = -1 <=> FileArgsBad)
    /\ (FileArgsBad => e = <<>>)
    /\ (~FileArgsBad => (Succeeded(e, "Check") <=> OptionsValid))
    /\ (last.ret = -2 <=> Failed(e, "Check"))
    /\ (last.ret = -3 <=> Failed(e, "Create"))
    /\ (last.ret = -4 <=> Failed(e, "Transcode"))
    /\ (last.ret = 0 <=>
          /\ ~FileArgsBad
          /\ Succeeded(e, "Check")
          /\ Succeeded(e, "Create")
          /\ Succeeded(e, "Transcode"))

\* A file transcode whose Create succeeded and whose Transcode failed.
C1_Witness ==
  IsFile /\ last.ret = -4 /\ Succeeded(last.events, "Create")

\* C2: on the two buffer paths, called with a non-null output_size, the
\* caller's size is 0 right after every call that returns null (calls
\* rejected for a null input_data or a zero input_size included) and equals
\* the byte length of the returned block after every call that returns one.
C2_SizeZeroOnNullLengthOnSuccess ==
  ((IsTranscode \/ IsDecompress) /\ last.output_size # NULL) =>
    /\ (last.ret = NULL => outSize = 0)
    /\ (last.ret # NULL => outSize = Len(heap[last.ret]))

\* C3: a call with a null argument (or, on the buffer paths, a zero
\* input_size) returns the argument-error sentinel (-1, or null) having run
\* no stage at all: no access through any pointer, no options validation, no
\* delegate call; and no call ever accesses memory through a null pointer.
PointerUsedBy(stage) ==
  IF stage = "FileOptions" THEN {last.input_filename, last.output_filename}
  ELSE IF stage = "translate" THEN {last.options}
  ELSE IF stage \in {"store_zero", "store_size"} THEN {last.output_size}
  ELSE IF stage = "Decode" /\ ~IsFile THEN {last.input_data}
  ELSE {}

C3_NullArgumentsRejectedUntouched ==
  /\ (IsFile /\ FileArgsBad) => (last.ret = -1 /\ last.events = <<>>)
  /\ (IsTranscode /\ TranscodeArgsBad) =>
        (last.ret = NULL /\ last.events = <<>>)
  /\ (IsDecompress /\ DecompressArgsBad) =>
        (last.ret = NULL /\ last.events = <<>>)
  /\ \A i \in 1..Len(last.events) :
        NULL \notin PointerUsedBy(last.events[i].stage)

\* A buffer transcode rejected for its null input_data alone.
C3_Witness ==
  /\ IsTranscode /\ last.input_data = NULL /\ last.options # NULL
  /\ last.output_size # NULL /\ last.ret = NULL

\* C4: with all pointer arguments non-null and an options record that fails
\* Check(), draco_transcode_gltf returns -2 and
\* draco_transcode_gltf_from_buffer returns null, and no delegate stage
\* (Create, Transcode, decode, encode, allocation) has run: the output file
\* and the heap are as they were before the call.
InvalidOptionsCall ==
  \/ IsFile /\ ~FileArgsBad /\ ~OptionsValid
  \/ IsTranscode /\ last.input_data # NULL /\ last.options # NULL
       /\ last.output_size # NULL /\ ~OptionsValid

C4_InvalidOptionsRejectedBeforeDelegates ==
  [][ InvalidOptionsCall' =>
        /\ (IsFile' => last'.ret = -2)
        /\ (IsTranscode' => last'.ret = NULL)
        /\ \A i \in 1..Len(last'.events) :
              last'.events[i].stage \notin DelegateStages
        /\ outFile' = outFile
        /\ heap' = heap
        /\ owned' = owned ]_vars

\* A file transcode rejected for its options after an earlier call wrote the
\* output file.
C4_Witness ==
  IsFile /\ ~FileArgsBad /\ ~OptionsValid /\ last.ret = -2 /\ outFile # <<>>

\* C5: as long as the caller frees each returned block at most once, the
\* live heap blocks are exactly the blocks returned and not yet freed: a call
\* that returns null allocates nothing, a call that returns a block allocates
\* exactly that new block, draco_free_buffer(block) releases exactly that
\* block, and draco_free_buffer(null) changes nothing.
C5_LiveBlocksAreOwnedBlocks ==
  /\ [](DOMAIN heap = owned)
  /\ [][ /\ ((IsTranscode' \/ IsDecompress') /\ last'.ret = NULL)
              => heap' = heap
         /\ ((IsTranscode' \/ IsDecompress') /\ last'.ret # NULL)
              => /\ last'.ret \notin DOMAIN heap
                 /\ DOMAIN heap' = DOMAIN heap \cup {last'.ret}
                 /\ \A a \in DOMAIN heap : heap'[a] = heap[a]
         /\ (IsFree' /\ last'.buffer # NULL)
              => /\ DOMAIN heap' = DOMAIN heap \ {last'.buffer}
                 /\ \A a \in DOMAIN heap' : heap'[a] = heap[a]
         /\ (IsFree' /\ last'.buffer = NULL) => heap' = heap
         /\ IsFile' => heap' = heap ]_vars

\* One block was freed while another is still live.
C5_Witness ==
  IsFree /\ last.buffer # NULL /\ owned # {} /\ last.buffer \notin owned

\* The bytes the last buffer call read.
LastBytes == InputBytes(last.input_data, last.input_size)

\* What the buffer-transcode pipeline makes of input bytes and an options
\* record, the allocation left aside: a status and the encoded bytes.
TranscodeOf(bytes, o) ==
  LET d == DecodeFromBufferToScene(bytes) IN
  IF Check(ExpectedGeometry(o)) /\ d.ok
  THEN EncodeToBuffer(SetDracoCompressionOptions(ExpectedGeometry(o), d.scene))
  ELSE [ok |-> FALSE, bytes |-> <<>>]

\* C6 as stated: the outcome of a buffer transcode with valid arguments is
\* fixed by its options record and its input bytes alone, whatever calls came
\* before: it returns null exactly when the pipeline fails on these inputs,
\* and otherwise a block holding exactly the pipeline's bytes, with
\* *output_size their length; so any two calls with identical options and
\* input bytes both return null or both return byte-identical blocks.
C6_OutcomeFixedByInputs ==
  (IsTranscode /\ ~TranscodeArgsBad) =>
    LET t == TranscodeOf(LastBytes, OptionsTable[last.options]) IN
    /\ (last.ret = NULL <=> ~t.ok)
    /\ (last.ret # NULL =>
          heap[last.ret] = t.bytes /\ outSize = Len(t.bytes))

\* C6 amended: every stage before the allocation, and the bytes and size of
\* every block returned, are fixed by the options record and the input bytes
\* alone; a call returns null exactly when the pipeline fails on its inputs
\* or its own allocation fails.
C6_OutcomeFixedByInputsUpToAllocation ==
  (IsTranscode /\ ~TranscodeArgsBad) =>
    LET t == TranscodeOf(LastBytes, OptionsTable[last.options]) IN
    /\ (Ran(last.events, "malloc") <=> t.ok)
    /\ (last.ret = NULL <=> (~t.ok \/ Failed(last.events, "malloc")))
    /\ (last.ret = NULL => outSize = 0)
    /\ (last.ret # NULL =>
          heap[last.ret] = t.bytes /\ outSize = Len(t.bytes))

\* A buffer transcode returned a block while an earlier call's block with the
\* same bytes is still live.
C6_Witness ==
  /\ IsTranscode /\ last.ret # NULL
  /\ \E a \in DOMAIN heap \ {last.ret} : heap[a] = heap[last.ret]

\* C8: draco_transcode_gltf_from_buffer runs its stages in the fixed order
\* argument check, *output_size := 0, Check(), decode,
\* SetDracoCompressionOptions, encode, malloc, copy, and the first failing
\* stage ends the call with null: no decode after a failed Check(), neither
\* SetDracoCompressionOptions nor encode after a failed decode, no allocation
\* after a failed encode, and after a failed allocation nothing is copied and
\* *output_size stays 0.
C8_StagesInOrderFirstFailureEnds ==
  IsTranscode =>
    LET e == last.events
        o == OptionsTable[last.options]
        d == DecodeFromBufferToScene(LastBytes)
    IN
    /\ IsPrefix(StageNames(e), TranscodeStages)
    /\ ShortCircuits(e)
    /\ (TranscodeArgsBad <=> e = <<>>)
    /\ (last.ret # NULL <=> StageNames(e) = TranscodeStages)
    /\ (last.ret # NULL => e[Len(e)].ok)
    /\ (Ran(e, "Check") => (Succeeded(e, "Check") <=> OptionsValid))
    /\ (Ran(e, "Decode") => (Succeeded(e, "Decode") <=> d.ok))
    /\ (Ran(e, "Encode") =>
          (Succeeded(e, "Encode") <=> TranscodeOf(LastBytes, o).ok))
    /\ (Failed(e, "Check") => ~Ran(e, "Decode"))
    /\ (Failed(e, "Decode") =>
          ~Ran(e, "SetDracoCompressionOptions") /\ ~Ran(e, "Encode"))
    /\ (Failed(e, "Encode") => ~Ran(e, "malloc"))
    /\ (Failed(e, "malloc") =>
          /\ ~Ran(e, "memcpy") /\ ~Ran(e, "store_size")
          /\ last.ret = NULL /\ outSize = 0)
    /\ ((e # <<>> /\ last.ret = NULL) => (~e[Len(e)].ok /\ outSize = 0))

\* A buffer transcode whose allocation failed after an earlier call left a
\* non-zero size in the caller's variable or a live block.
C8_Witness ==
  IsTranscode /\ Failed(last.events, "malloc") /\ owned # {}

\* C9: the options translation copies each of the eight DracoOptions fields
\* unchanged into its slot of the geometry configuration (position through
\* SetQuantizationBits), the file path and the buffer path build the same
\* configuration from the same record, and Check() on that configuration is
\* the only validation: a record invalid in compression_level and a record
\* invalid in a quantization field are rejected alike (-2 on the file path,
\* null on the buffer path).
C9_OptionsMappedSlotBySlot ==
  ((IsFile /\ ~FileArgsBad) \/ (IsTranscode /\ ~TranscodeArgsBad)) =>
    LET e == last.events
        o == OptionsTable[last.options]
    IN
    /\ last.config = <<[geometry |-> ExpectedGeometry(o)]>>
    /\ Ran(e, "Check")
    /\ (Succeeded(e, "Check") <=> OptionsValid)
    /\ (~OptionsValid => e[Len(e)] = Ev("Check", FALSE))
    /\ (IsFile => (last.ret = -2 <=> ~OptionsValid))
    /\ (IsTranscode => (~OptionsValid => last.ret = NULL))

\* A buffer transcode translated a record whose tangent and weight bit depths
\* differ, and the transcode went through.
C9_Witness ==
  /\ IsTranscode /\ last.ret # NULL
  /\ OptionsTable[last.options].quantization_tangent
       # OptionsTable[last.options].quantization_weight

\* C10: draco_decompress_gltf_to_buffer builds and validates no configuration
\* and applies no compression options: it decodes, then encodes the decoded
\* scene as it is; draco_transcode_gltf_from_buffer applies the validated
\* geometry configuration to the scene exactly once, after a successful
\* decode and before encode.
C10_OnlyTranscodeAppliesOptions ==
  /\ IsDecompress =>
       /\ last.config = <<>>
       /\ last.applied = <<>>
       /\ IsPrefix(StageNames(last.events), DecompressStages)
       /\ (last.ret # NULL =>
             heap[last.ret]
               = EncodeToBuffer(DecodeFromBufferToScene(LastBytes).scene).bytes)
  /\ IsTranscode =>
       LET e == last.events
           n == StageNames(e)
           at == {i \in 1..Len(e) : n[i] = "SetDracoCompressionOptions"}
       IN
       /\ (Succeeded(e, "Decode") <=> at # {})
       /\ (at = {} <=> last.applied = <<>>)
       /\ (at # {} =>
             /\ Cardinality(at) = 1
             /\ OptionsValid
             /\ last.applied
                  = <<ExpectedGeometry(OptionsTable[last.options])>>
             /\ \A i \in at : n[i - 1] = "Decode" /\ n[i + 1] = "Encode")

\* A decompress call returned a block.
C10_Witness ==
  IsDecompress /\ last.ret # NULL

====
